---- MODULE Spec2Model ----
(***************************************************************************)
(* A model of the EventProxy dispatcher of src/events/eventproxy.js: the   *)
(* mapping this._callbacks from event name to callback array, and the      *)
(* operations addListener, headbind, removeListener, bindForAll,           *)
(* unbindForAll and trigger.                                               *)
(*                                                                         *)
(* The dispatcher is synchronous and single threaded, so every operation   *)
(* is one action.  trigger runs callbacks, and a callback may call back    *)
(* into the dispatcher while trigger still holds references to the mapping *)
(* (calls) and to the array it walks (list).  The operations are therefore *)
(* written over a small heap of mapping objects and array objects, so that *)
(* "this._callbacks = {}" and "calls[eventname] = []" create new objects   *)
(* and leave the old ones to whoever still refers to them.  Between two    *)
(* operations only the current mapping and its arrays are reachable, and   *)
(* the state keeps just those.                                             *)
(*                                                                         *)
(* Line 169 of the source reads "list.splice(i, 1) {", which is read here  *)
(* as the statement list.splice(i, 1); followed by i--; l--;.  debug(...)  *)
(* only logs and is left out.                                              *)
(***************************************************************************)
EXTENDS Integers, Sequences, FiniteSets, TLC

\* ---------------------------------------------------------------- inputs

\* var ALL_EVENT = '__all__'
ALL_EVENT == "__all__"

\* The event names callers use.
EventNames == {"x", ALL_EVENT}

\* The order in which the arrays of a mapping are laid out in the heap.
EventSeq == <<"x", ALL_EVENT>>

\* An omitted argument, and the tombstone removeListener writes into a slot.
Undefined == "undefined"
Null == "null"

\* The callbacks callers register, and what each does when it is applied:
\*   plain         returns
\*   selfRemove    calls this.removeListener("x", itself) and returns
\*   throw         throws
\*   nestedFire    calls this.removeListener("x", itself), then this.trigger("x", "n")
\*   headbind      calls this.headbind("x", cbNew)
\*   removeOther   calls this.removeListener("x", cbB)
\*   clearEvent    calls this.removeListener("x")
\*   reset         calls this.removeListener()
\*   register      calls this.addListener("x", cbNew)
\*   registerAll   calls this.addListener(ALL_EVENT, cbNew)
\*   registerSelf  calls this.addListener("x", itself)
\* cbNew returns; only callbacks register it.
Callbacks == {"cbA", "cbB", "cbSelf", "cbThrow"}

Behaviour(cb) ==
  CASE cb = "cbSelf" -> "selfRemove"
    [] cb = "cbThrow" -> "throw"
    [] cb = "cbNest" -> "nestedFire"
    [] cb = "cbHead" -> "headbind"
    [] cb = "cbKill" -> "removeOther"
    [] cb = "cbClear" -> "clearEvent"
    [] cb = "cbReset" -> "reset"
    [] cb = "cbReg" -> "register"
    [] cb = "cbRegAll" -> "registerAll"
    [] cb = "cbAgain" -> "registerSelf"
    [] OTHER -> "plain"

\* The event the callbacks that call the dispatcher name in their calls.
SelfEvent == "x"

\* The callback the registering callbacks register, the one cbKill removes,
\* and the data cbNest fires with.
NewCallback == "cbNew"
OtherCallback == "cbB"
NestData == <<"n">>

\* The data passed to trigger after the event name.
DataSet == {<<"v1">>, <<"v1", "v2">>}

\* The most slots the arrays of the mapping hold together when a callback is
\* registered by a caller.
MaxSlots == 3

\* The most slots they hold together after a trigger whose callbacks register.
MaxHeld == 4

\* The nested calls of trigger the call stack has room for.
MaxDepth == 3

\* ----------------------------------------------------------------- state

VARIABLES
  callbacks,  \* this._callbacks: event name -> array of slots
  lastOp,     \* the call made last: [op, ev, cb, data]
  trace,      \* the callbacks the last call applied, in order
  threw,      \* whether the last call ended in a callback's exception
  passes,     \* the rounds of the last trigger: [both, len, steps]
  universe    \* the callbacks callers register (fixed at construction)

vars == <<callbacks, lastOp, trace, threw, passes, universe>>

\* ------------------------------------------------------------------ heap

\* !x of JavaScript, for the values a slot or an argument holds.
Falsy(v) == v = Undefined \/ v = Null

IndexOf(ev) == CHOOSE k \in 1..Len(EventSeq) : EventSeq[k] = ev

\* The heap an operation starts on: one mapping object, its arrays.
Load(cbs) ==
  [ maps  |-> << [ev \in DOMAIN cbs |-> IndexOf(ev)] >>,
    arrs  |-> <<>> \o [k \in 1..Len(EventSeq) |->
                          IF EventSeq[k] \in DOMAIN cbs THEN cbs[EventSeq[k]] ELSE <<>>],
    this  |-> 1,
    trace |-> <<>>,
    threw |-> FALSE,
    depth |-> 0,
    steps |-> 0,
    passes |-> <<>> ]

\* this._callbacks as the operation leaves it.
Store(h) ==
  LET m == h.maps[h.this]
  IN [ev \in DOMAIN m |-> h.arrs[m[ev]]]

\* calls[ev] = <a new array holding contents>
SetNew(h, calls, ev, contents) ==
  LET m == h.maps[calls]
      id == Len(h.arrs) + 1
  IN [h EXCEPT !.arrs = Append(@, contents),
               !.maps[calls] = [e \in DOMAIN m \cup {ev} |->
                                  IF e = ev THEN id ELSE m[e]]]

\* ------------------------------------------------------------ operations

\* A push that inserts at the front.
PushAtFront(list, callback) == <<callback>> \o list

\* list.push(callback)
Push(list, callback) == Append(list, callback)

\* An unshift that inserts at the end.
UnshiftAtEnd(list, callback) == Append(list, callback)

\* list.unshift(callback)
Unshift(list, callback) == <<callback>> \o list

\* list.splice(i, 1), i counted from 0; past the end it removes nothing.
Splice(list, i) ==
  IF i >= 0 /\ i < Len(list)
  THEN SubSeq(list, 1, i) \o SubSeq(list, i + 2, Len(list))
  ELSE list

\* An addListener that detects duplicates and registers a callback once.
AddListenerOnce(h, ev, callback) ==
  LET m == h.maps[h.this]
  IN IF ev \in DOMAIN m
     THEN IF \E i \in DOMAIN h.arrs[m[ev]] : h.arrs[m[ev]][i] = callback
          THEN h
          ELSE [h EXCEPT !.arrs[m[ev]] = Append(@, callback)]
     ELSE SetNew(h, h.this, ev, <<callback>>)

\* EventProxy.prototype.addListener
AddListener(h, ev, callback) ==
  LET m == h.maps[h.this]
  IN IF ev \in DOMAIN m
     THEN [h EXCEPT !.arrs[m[ev]] = Push(@, callback)]
     ELSE SetNew(h, h.this, ev, Push(<<>>, callback))

\* EventProxy.prototype.headbind
Headbind(h, ev, callback) ==
  LET m == h.maps[h.this]
  IN IF ev \in DOMAIN m
     THEN [h EXCEPT !.arrs[m[ev]] = Unshift(@, callback)]
     ELSE SetNew(h, h.this, ev, Unshift(<<>>, callback))

\* A removal loop that stops at the first match.
TombstoneFirst(list, callback) ==
  <<>> \o [i \in 1..Len(list) |->
     IF list[i] = callback /\ (\A j \in 1..(i - 1) : list[j] # callback)
     THEN Null ELSE list[i]]

\* A removal that takes the matching slots out of the array at once.
TombstoneSplice(list, callback) ==
  LET Keep(slot) == slot # callback IN SelectSeq(list, Keep)

\* The for loop of removeListener: list[i] = null where callback === list[i].
Tombstone(list, callback) ==
  <<>> \o [i \in 1..Len(list) |-> IF list[i] = callback THEN Null ELSE list[i]]

\* A reset that spares the wildcard list.
ClearAllButWildcard(h) ==
  LET m == h.maps[h.this]
  IN [h EXCEPT !.maps = Append(@, [e \in DOMAIN m \cap {ALL_EVENT} |-> m[e]]),
               !.this = Len(h.maps) + 1]

\* this._callbacks = {}
ClearAll(h) == [h EXCEPT !.maps = Append(@, <<>>), !.this = Len(h.maps) + 1]

\* A clear of one event that empties every list of the mapping.
ClearEveryEvent(h, calls, eventname) ==
  LET m == h.maps[calls]
  IN [h EXCEPT !.arrs = <<>> \o [k \in DOMAIN h.arrs |-> <<>>],
               !.maps[calls] = [e \in DOMAIN m \cup {eventname} |-> IndexOf(e)]]

\* A clear of one event that empties the array in place (list.length = 0),
\* under the loop of a trigger that holds it.
ClearEventInPlace(h, calls, eventname) ==
  LET m == h.maps[calls]
  IN IF eventname \in DOMAIN m
     THEN [h EXCEPT !.arrs[m[eventname]] = <<>>]
     ELSE SetNew(h, calls, eventname, <<>>)

\* calls[eventname] = []
ClearEvent(h, calls, eventname) == SetNew(h, calls, eventname, <<>>)

\* EventProxy.prototype.removeListener
RemoveListener(h, eventname, callback) ==
  LET calls == h.this
      m == h.maps[calls]
  IN IF Falsy(eventname)
     THEN ClearAll(h)
     ELSE IF Falsy(callback)
          THEN ClearEvent(h, calls, eventname)
          ELSE IF eventname \in DOMAIN m
               THEN [h EXCEPT !.arrs[m[eventname]] = Tombstone(@, callback)]
               ELSE h

\* EventProxy.prototype.bind = EventProxy.prototype.addListener (as are on and
\* subscribe): the same function under another name.
Bind(h, ev, callback) == AddListener(h, ev, callback)

\* EventProxy.prototype.unbind = EventProxy.prototype.removeListener
Unbind(h, eventname, callback) == RemoveListener(h, eventname, callback)

\* A removeAllListeners that hands a second argument on to unbind.
RemoveAllListenersPassing(h, event, callback) == Unbind(h, event, callback)

\* EventProxy.prototype.removeAllListeners = function (event): a second
\* argument is not a parameter and is not passed on.
RemoveAllListeners(h, event, callback) == Unbind(h, event, Undefined)

\* EventProxy.prototype.bindForAll
BindForAll(h, callback) == Bind(h, ALL_EVENT, callback)

\* EventProxy.prototype.unbindForAll
UnbindForAll(h, callback) == Unbind(h, ALL_EVENT, callback)

\* Arguments that never carry the event name.
ArgsNoName(both, arguments) == SubSeq(arguments, 2, Len(arguments))

\* The arguments a callback is applied to: arguments[start..], start = both ? 1 : 0.
ArgsFor(both, arguments) ==
  LET start == IF both # 0 THEN 1 ELSE 0
  IN SubSeq(arguments, start + 1, Len(arguments))

\* trigger applies callbacks, and a callback may call trigger.
RECURSIVE Trigger(_, _, _)

\* An apply that catches what the callback throws.
ApplyCatching(h, callback, args, both) ==
  LET h1 == [h EXCEPT !.trace = Append(@, [cb |-> callback, args |-> args, both |-> both])]
  IN IF Behaviour(callback) = "selfRemove"
     THEN RemoveListener(h1, SelfEvent, callback)
     ELSE h1

\* callback.apply(this, args): the call is recorded (with the round of the while
\* loop it was made in: both = 1 for eventname's list, 0 for ALL_EVENT's), then
\* the callback runs.
Apply(h, callback, args, both) ==
  LET h1 == [h EXCEPT !.trace = Append(@, [cb |-> callback, args |-> args, both |-> both])]
      b == Behaviour(callback)
  IN CASE b = "plain" -> h1
       [] b = "selfRemove" -> RemoveListener(h1, SelfEvent, callback)
       [] b = "throw" -> [h1 EXCEPT !.threw = TRUE]
       [] b = "nestedFire" ->
            Trigger(RemoveListener(h1, SelfEvent, callback), SelfEvent, NestData)
       [] b = "headbind" -> Headbind(h1, SelfEvent, NewCallback)
       [] b = "removeOther" -> RemoveListener(h1, SelfEvent, OtherCallback)
       [] b = "clearEvent" -> RemoveListener(h1, SelfEvent, Undefined)
       [] b = "reset" -> RemoveListener(h1, Undefined, Undefined)
       [] b = "register" -> AddListener(h1, SelfEvent, NewCallback)
       [] b = "registerAll" -> AddListener(h1, ALL_EVENT, NewCallback)
       [] b = "registerSelf" -> AddListener(h1, SelfEvent, callback)

\* A splice that does not step the index back: l--; only.
AfterSpliceNoStepBack(i, l) == [i |-> i, l |-> l - 1]

\* i and l after a tombstone was spliced out: i--; l--;
AfterSplice(i, l) == [i |-> i - 1, l |-> l - 1]

\* The for loop of trigger over the array object list, from index i (from 0).
\* An exception thrown by a callback ends the loop and the whole call.
\* h.steps counts the times the loop body ran.
RECURSIVE Loop(_, _, _, _, _, _)
Loop(h, list, i, l, both, arguments) ==
  IF h.threw \/ ~(i < l)
  THEN h
  ELSE LET arr == h.arrs[list]
           callback == IF i < Len(arr) THEN arr[i + 1] ELSE Undefined
           hs == [h EXCEPT !.steps = @ + 1]
       IN IF Falsy(callback)
          THEN LET h1 == [hs EXCEPT !.arrs[list] = Splice(@, i)]
                   n == AfterSplice(i, l)
               IN Loop(h1, list, n.i + 1, n.l, both, arguments)
          ELSE Loop(Apply(hs, callback, ArgsFor(both, arguments), both),
                    list, i + 1, l, both, arguments)

\* A for loop whose test is i <= l: one step more than the list had slots.
WalkOneMore(h, list, len, both, arguments) ==
  LET h1 == Loop([h EXCEPT !.steps = 0], list, 0, len + 1, both, arguments)
  IN [h1 EXCEPT !.steps = h.steps,
                !.passes = IF h.depth = 1
                           THEN Append(@, [both |-> both, len |-> len, steps |-> h1.steps])
                           ELSE @]

\* The for loop from i = 0 with l = len, and the record of the round when the
\* trigger was called by a caller (not by a callback).
Walk(h, list, len, both, arguments) ==
  LET h1 == Loop([h EXCEPT !.steps = 0], list, 0, len, both, arguments)
  IN [h1 EXCEPT !.steps = h.steps,
                !.passes = IF h.depth = 1
                           THEN Append(@, [both |-> both, len |-> len, steps |-> h1.steps])
                           ELSE @]

\* A round that creates the list it does not find, as addListener does.
PassCreating(h, calls, both, eventname, arguments) ==
  LET ev == IF both # 0 THEN eventname ELSE ALL_EVENT
      m == h.maps[calls]
  IN IF ev \in DOMAIN m
     THEN Walk(h, m[ev], Len(h.arrs[m[ev]]), both, arguments)
     ELSE SetNew(h, calls, ev, <<>>)

\* A round that is left out when the wildcard name itself is fired, so that
\* the wildcard list is walked once.
PassOnce(h, calls, both, eventname, arguments) ==
  LET ev == IF both # 0 THEN eventname ELSE ALL_EVENT
      m == h.maps[calls]
  IN IF ev \in DOMAIN m /\ ~(both = 0 /\ eventname = ALL_EVENT)
     THEN Walk(h, m[ev], Len(h.arrs[m[ev]]), both, arguments)
     ELSE h

\* One round of while (both--): the list of eventname, then the list of ALL_EVENT.
Pass(h, calls, both, eventname, arguments) ==
  LET ev == IF both # 0 THEN eventname ELSE ALL_EVENT
      m == h.maps[calls]
  IN IF ev \in DOMAIN m
     THEN Walk(h, m[ev], Len(h.arrs[m[ev]]), both, arguments)
     ELSE h

\* A trigger that looks up both lists before its first round, so that a
\* wildcard list created during the round over eventname's list is not walked.
RoundsHoisted(h, eventname, data) ==
  LET calls == h.this
      arguments == <<eventname>> \o data
      m == h.maps[calls]
      h1 == Pass(h, calls, 1, eventname, arguments)
  IN IF h1.threw \/ ALL_EVENT \notin DOMAIN m
     THEN h1
     ELSE Walk(h1, m[ALL_EVENT], Len(h1.arrs[m[ALL_EVENT]]), 0, arguments)

\* The body of trigger: calls is read once, then the two rounds.
Rounds(h, eventname, data) ==
  LET calls == h.this
      arguments == <<eventname>> \o data
      h1 == Pass(h, calls, 1, eventname, arguments)
  IN IF h1.threw THEN h1 ELSE Pass(h1, calls, 0, eventname, arguments)

\* EventProxy.prototype.trigger.  A call nested deeper than the stack has room
\* for ends in the exception the engine throws.
Trigger(h, eventname, data) ==
  IF h.depth >= MaxDepth
  THEN [h EXCEPT !.threw = TRUE]
  ELSE [Rounds([h EXCEPT !.depth = @ + 1], eventname, data) EXCEPT !.depth = h.depth]

\* --------------------------------------------------------------- actions

RECURSIVE SumLen(_, _)
SumLen(cbs, evs) ==
  IF evs = {} THEN 0
  ELSE LET e == CHOOSE x \in evs : TRUE
       IN Len(cbs[e]) + SumLen(cbs, evs \ {e})

TotalSlots(cbs) == SumLen(cbs, DOMAIN cbs)

Op(op, ev, cb, data) == [op |-> op, ev |-> ev, cb |-> cb, data |-> data]

Finish(h, op) ==
  /\ callbacks' = Store(h)
  /\ trace' = h.trace
  /\ threw' = h.threw
  /\ passes' = h.passes
  /\ lastOp' = op
  /\ UNCHANGED universe

\* new EventProxy(), and the callbacks its callers are going to register.
InitWith(cbs) ==
  /\ callbacks = <<>>
  /\ lastOp = Op("new", Undefined, Undefined, <<>>)
  /\ trace = <<>>
  /\ threw = FALSE
  /\ passes = <<>>
  /\ universe = cbs

Init == InitWith(Callbacks)

addListener ==
  \E ev \in EventNames, cb \in universe :
    /\ TotalSlots(callbacks) < MaxSlots
    /\ Finish(AddListener(Load(callbacks), ev, cb), Op("addListener", ev, cb, <<>>))

headbind ==
  \E ev \in EventNames, cb \in universe :
    /\ TotalSlots(callbacks) < MaxSlots
    /\ Finish(Headbind(Load(callbacks), ev, cb), Op("headbind", ev, cb, <<>>))

removeListener ==
  \E ev \in EventNames \cup {Undefined}, cb \in universe \cup {Undefined} :
    Finish(RemoveListener(Load(callbacks), ev, cb), Op("removeListener", ev, cb, <<>>))

removeAllListeners ==
  \E ev \in EventNames \cup {Undefined}, cb \in universe \cup {Undefined} :
    Finish(RemoveAllListeners(Load(callbacks), ev, cb), Op("removeAllListeners", ev, cb, <<>>))

bindForAll ==
  \E cb \in universe :
    /\ TotalSlots(callbacks) < MaxSlots
    /\ Finish(BindForAll(Load(callbacks), cb), Op("bindForAll", Undefined, cb, <<>>))

unbindForAll ==
  \E cb \in universe :
    Finish(UnbindForAll(Load(callbacks), cb), Op("unbindForAll", Undefined, cb, <<>>))

trigger ==
  \E ev \in EventNames, data \in DataSet :
    \E h \in {Trigger(Load(callbacks), ev, data)} :
       /\ TotalSlots(Store(h)) <= MaxHeld
       /\ Finish(h, Op("trigger", ev, Undefined, data))

Next ==
  \/ addListener
  \/ headbind
  \/ removeListener
  \/ removeAllListeners
  \/ bindForAll
  \/ unbindForAll
  \/ trigger

Spec == Init /\ [][Next]_vars

\* ------------------------------------------------- vocabulary of the claims

\* The list registered under ev, empty when ev is no key of the mapping.
ListOf(cbs, ev) == IF ev \in DOMAIN cbs THEN cbs[ev] ELSE <<>>

IsActive(slot) == slot # Null

\* The slots of a list that hold a callback, in list order.
Active(list) == SelectSeq(list, IsActive)

\* The list without the slots holding cb.
Without(list, cb) == LET Keep(slot) == slot # cb IN SelectSeq(list, Keep)

\* Some slot of the list holds cb.
Has(list, cb) == \E i \in DOMAIN list : list[i] = cb

\* How many slots of a list hold cb.
Count(list, cb) == Cardinality({i \in DOMAIN list : list[i] = cb})

NoTombstone(list) == \A i \in DOMAIN list : list[i] # Null

Distinct(list) == \A i, j \in DOMAIN list : list[i] = list[j] => i = j

\* Every callback of the list returns without calling the dispatcher.
AllPlain(list) == \A i \in DOMAIN list : list[i] = Null \/ Behaviour(list[i]) = "plain"

\* The calls list[1](args), list[2](args), ... made in round both.
Calls(list, args, both) ==
  [i \in DOMAIN list |-> [cb |-> list[i], args |-> args, both |-> both]]

\* What trigger(ev, data) is to apply on the mapping cbs: the active callbacks
\* of ev's list to data, then those of the wildcard list to (ev, data).
Expected(cbs, ev, data) ==
  Calls(Active(ListOf(cbs, ev)), data, 1)
    \o Calls(Active(ListOf(cbs, ALL_EVENT)), <<ev>> \o data, 0)

\* The calls of a trace made in the round over eventname's list, and in the
\* round over the wildcard list.
DirectCalls(tr) == LET D(c) == c.both = 1 IN SelectSeq(tr, D)
WildcardCalls(tr) == LET W(c) == c.both = 0 IN SelectSeq(tr, W)

\* How many calls of a trace went to cb.
CallsTo(tr, cb) == Cardinality({i \in DOMAIN tr : tr[i].cb = cb})

\* The calls of a trace that did not go to cb.
CallsExcept(tr, cb) == LET K(c) == c.cb # cb IN SelectSeq(tr, K)

\* The step just taken is trigger(ev, ...).
Fired(ev) == lastOp'.op = "trigger" /\ lastOp'.ev = ev

\* -------------------------------------------------------------------- C1

\* C1 as stated: for ANY event name e, after nothing but register(e, cb) calls on
\* distinct callbacks (register appends, so the list is the registration order:
\* the mapping holds e's list only, without tombstone or duplicate, of callbacks
\* that just return), fire(e, args) applies exactly the callbacks of the list,
\* each once, in list order, each to args.
C1_AsStated ==
  [][ /\ \A e \in EventNames :
           (lastOp'.op = "addListener" /\ lastOp'.ev = e)
             => callbacks'[e] = Append(ListOf(callbacks, e), lastOp'.cb)
      /\ \A e \in EventNames :
           ( /\ Fired(e)
             /\ DOMAIN callbacks = {e}
             /\ NoTombstone(callbacks[e]) /\ Distinct(callbacks[e]) /\ AllPlain(callbacks[e]) )
             => trace' = Calls(callbacks[e], lastOp'.data, 1) ]_vars

\* C1 amended: the same for every event name e other than the wildcard name
\* ALL_EVENT (whose list trigger walks a second time, passing the event name).
C1_RegistrationOrder ==
  [][ /\ \A e \in EventNames :
           (lastOp'.op = "addListener" /\ lastOp'.ev = e)
             => /\ callbacks'[e] = Append(ListOf(callbacks, e), lastOp'.cb)
                /\ \A o \in DOMAIN callbacks \ {e} : callbacks'[o] = callbacks[o]
      /\ \A e \in EventNames \ {ALL_EVENT} :
           ( /\ Fired(e)
             /\ DOMAIN callbacks = {e}
             /\ NoTombstone(callbacks[e]) /\ Distinct(callbacks[e]) /\ AllPlain(callbacks[e]) )
             => /\ trace' = Calls(callbacks[e], lastOp'.data, 1)
                /\ ~threw' ]_vars

\* Two distinct callbacks, registered in the order cbA, cbB, were fired in that order.
C1_Witness ==
  /\ lastOp.op = "trigger" /\ lastOp.ev = "x"
  /\ DOMAIN callbacks = {"x"}
  /\ ListOf(callbacks, "x") = <<"cbA", "cbB">>
  /\ trace = <<[cb |-> "cbA", args |-> lastOp.data, both |-> 1],
               [cb |-> "cbB", args |-> lastOp.data, both |-> 1]>>

\* -------------------------------------------------------------------- C2

\* C2: for an event e other than the wildcard name and callbacks that make no
\* re-entrant call, fire(e, args) applies the active callbacks of e's list in
\* list order to args, then the active callbacks of the wildcard list in list
\* order to (e, args); bindForAll(cb) appends cb to the wildcard list, so a
\* callback bound once is applied once per fire, the event name first.
C2_DirectThenWildcard ==
  [][ /\ \A e \in EventNames \ {ALL_EVENT} :
           ( /\ Fired(e)
             /\ AllPlain(ListOf(callbacks, e))
             /\ AllPlain(ListOf(callbacks, ALL_EVENT)) )
             => /\ trace' = Expected(callbacks, e, lastOp'.data)
                /\ ~threw'
                /\ \A cb \in Callbacks :
                     Count(ListOf(callbacks, ALL_EVENT), cb) = 1
                       => /\ CallsTo(WildcardCalls(trace'), cb) = 1
                          /\ \A i \in DOMAIN trace' :
                               (trace'[i].cb = cb /\ trace'[i].both = 0)
                                 => trace'[i].args = <<e>> \o lastOp'.data
      /\ lastOp'.op = "bindForAll"
           => /\ callbacks'[ALL_EVENT] = Append(ListOf(callbacks, ALL_EVENT), lastOp'.cb)
              /\ \A o \in DOMAIN callbacks \ {ALL_EVENT} : callbacks'[o] = callbacks[o] ]_vars

\* fire("x", v1, v2) applied cbA of x's list to (v1, v2), then cbB of the
\* wildcard list to ("x", v1, v2).
C2_Witness ==
  /\ lastOp.op = "trigger" /\ lastOp.ev = "x" /\ lastOp.data = <<"v1", "v2">>
  /\ trace = <<[cb |-> "cbA", args |-> <<"v1", "v2">>, both |-> 1],
               [cb |-> "cbB", args |-> <<"x", "v1", "v2">>, both |-> 0]>>

\* -------------------------------------------------------------------- C3

\* C3: registerAtHead(e, cb) puts cb at position 0 of e's list, in front of
\* every slot the list held (so in front of earlier head-insertions and of
\* everything register appended), the other slots keeping their order; the
\* fire(e, ...) that follows applies cb first, to the data; and a fire applies
\* callbacks that make no re-entrant call in list order.
C3_HeadFirst ==
  [][ \A e \in EventNames :
        /\ (lastOp'.op = "headbind" /\ lastOp'.ev = e)
             => /\ callbacks'[e] = <<lastOp'.cb>> \o ListOf(callbacks, e)
                /\ \A o \in DOMAIN callbacks \ {e} : callbacks'[o] = callbacks[o]
        /\ (lastOp.op = "headbind" /\ lastOp.ev = e /\ Fired(e))
             => /\ trace' # <<>>
                /\ trace'[1] = [cb |-> lastOp.cb, args |-> lastOp'.data, both |-> 1]
        /\ (Fired(e) /\ AllPlain(ListOf(callbacks, e)))
             => DirectCalls(trace') = Calls(Active(ListOf(callbacks, e)), lastOp'.data, 1) ]_vars

\* cbB was put at the head of x's list after cbA had been registered, and the
\* fire("x", ...) that follows applies cbB first and cbA after it.
C3_Witness ==
  /\ lastOp = Op("headbind", "x", "cbB", <<>>)
  /\ ListOf(callbacks, "x") = <<"cbB", "cbA">>
  /\ ENABLED ( /\ trigger
               /\ lastOp'.ev = "x"
               /\ Len(trace') = 2
               /\ trace'[1].cb = "cbB" /\ trace'[2].cb = "cbA" )

\* -------------------------------------------------------------------- C4

\* C4: unregister(e, cb) leaves no slot of e's list holding cb, however many held
\* it, and keeps the other callbacks of the list in their order; as long as cb is
\* not registered on e again no slot of e's list holds cb; a fire(e, ...) on a
\* list without cb makes no call to cb in its round over e's list; and the
\* fire(e, ...) that follows the unregister applies the remaining callbacks (when
\* they make no re-entrant call) in the order they have in the list.
C4_RemovedNotInvoked ==
  [][ /\ \A e \in EventNames, cb \in Callbacks :
           ( /\ ~Has(ListOf(callbacks, e), cb)
             /\ ~(lastOp'.op \in {"addListener", "headbind"} /\ lastOp'.ev = e /\ lastOp'.cb = cb)
             /\ ~(lastOp'.op = "bindForAll" /\ e = ALL_EVENT /\ lastOp'.cb = cb) )
             => ~Has(ListOf(callbacks', e), cb)
      /\ lastOp'.op \in {"removeListener", "trigger"}
           => \A e \in EventNames, cb \in Callbacks :
                /\ (lastOp' = Op("removeListener", e, cb, <<>>))
                     => /\ ~Has(ListOf(callbacks', e), cb)
                        /\ Active(ListOf(callbacks', e))
                             = Without(Active(ListOf(callbacks, e)), cb)
                /\ (Fired(e) /\ ~Has(ListOf(callbacks, e), cb))
                     => CallsTo(DirectCalls(trace'), cb) = 0
                /\ (lastOp = Op("removeListener", e, cb, <<>>) /\ Fired(e)
                      /\ AllPlain(ListOf(callbacks, e)))
                     => DirectCalls(trace')
                          = Calls(Active(ListOf(callbacks, e)), lastOp'.data, 1) ]_vars

\* cbB, registered twice under x around cbA, was unregistered: both slots are
\* tombstones, and the fire("x", ...) that follows applies cbA and nothing else.
C4_Witness ==
  /\ lastOp = Op("removeListener", "x", "cbB", <<>>)
  /\ ListOf(callbacks, "x") = <<Null, "cbA", Null>>
  /\ ENABLED ( /\ trigger
               /\ lastOp'.ev = "x"
               /\ Len(trace') = 1
               /\ trace'[1].cb = "cbA" )

\* -------------------------------------------------------------------- C5

\* C5: when cbSelf, which calls unregister("x", cbSelf) and nothing else, is
\* applied by fire("x", ...), every other active callback of x's list and of the
\* wildcard list (callbacks that make no re-entrant call) is applied exactly
\* once, in list order: the calls to the others are what they would be without
\* the removal.
C5_SelfRemovalSkipsNothing ==
  [][ ( /\ Fired(SelfEvent)
        /\ Count(ListOf(callbacks, SelfEvent), "cbSelf") > 0
        /\ AllPlain(Without(ListOf(callbacks, SelfEvent), "cbSelf"))
        /\ AllPlain(Without(ListOf(callbacks, ALL_EVENT), "cbSelf")) )
        => /\ CallsExcept(trace', "cbSelf")
                = CallsExcept(Expected(callbacks, SelfEvent, lastOp'.data), "cbSelf")
           /\ \A cb \in Callbacks \ {"cbSelf"} :
                CallsTo(trace', cb) = Count(ListOf(callbacks, SelfEvent), cb)
                                        + Count(ListOf(callbacks, ALL_EVENT), cb)
           /\ CallsTo(DirectCalls(trace'), "cbSelf") = 1 ]_vars

\* fire("x", ...) on the list cbA, cbSelf, cbB applied all three in order; the
\* slot of cbSelf is now a tombstone, still in the list.
C5_Witness ==
  /\ lastOp.op = "trigger" /\ lastOp.ev = "x"
  /\ ListOf(callbacks, "x") = <<"cbA", Null, "cbB">>
  /\ trace = Calls(<<"cbA", "cbSelf", "cbB">>, lastOp.data, 1)

\* -------------------------------------------------------------------- C6

\* No callback of the list throws.
NonThrowing(list) == \A i \in DOMAIN list : list[i] = Null \/ Behaviour(list[i]) # "throw"

\* C6: unregister(e) with no callback leaves e with an empty list and every
\* other list as it was; the fire(e, ...) that follows makes no call in its
\* round over e's list, and applies every active callback of the wildcard list
\* (none of which throws), in list order, to (e, args).
C6_ClearOneEvent ==
  [][ \A e \in EventNames :
        /\ (lastOp' = Op("removeListener", e, Undefined, <<>>))
             => /\ DOMAIN callbacks' = DOMAIN callbacks \cup {e}
                /\ callbacks'[e] = <<>>
                /\ \A o \in DOMAIN callbacks \ {e} : callbacks'[o] = callbacks[o]
        /\ (lastOp = Op("removeListener", e, Undefined, <<>>) /\ Fired(e))
             => /\ DirectCalls(trace') = <<>>
                /\ NonThrowing(ListOf(callbacks, ALL_EVENT))
                     => /\ WildcardCalls(trace')
                             = Calls(Active(ListOf(callbacks, ALL_EVENT)), <<e>> \o lastOp'.data, 0)
                        /\ ~threw' ]_vars

\* unregister("x") emptied x's list and left the wildcard list, which holds
\* cbA and cbB; the fire("x", ...) that follows applies exactly these two.
C6_Witness ==
  /\ lastOp = Op("removeListener", "x", Undefined, <<>>)
  /\ ListOf(callbacks, "x") = <<>>
  /\ ListOf(callbacks, ALL_EVENT) = <<"cbA", "cbB">>
  /\ ENABLED ( /\ trigger
               /\ lastOp'.ev = "x"
               /\ trace' = Calls(<<"cbA", "cbB">>, <<"x">> \o lastOp'.data, 0) )

\* -------------------------------------------------------------------- C7

\* Every list of the mapping is empty.
NothingRegistered(cbs) == \A e \in DOMAIN cbs : cbs[e] = <<>>

\* C7: unregister() with no arguments leaves a mapping without any key; until
\* a callback is registered again every list stays empty; and a fire on any
\* event name then applies nothing, from e's list or from the wildcard list.
C7_Reset ==
  [][ /\ (lastOp' = Op("removeListener", Undefined, Undefined, <<>>))
           => DOMAIN callbacks' = {}
      /\ (NothingRegistered(callbacks)
            /\ lastOp'.op \notin {"addListener", "headbind", "bindForAll"})
           => NothingRegistered(callbacks')
      /\ (NothingRegistered(callbacks) /\ lastOp'.op = "trigger")
           => (trace' = <<>> /\ ~threw')
      /\ (lastOp = Op("removeListener", Undefined, Undefined, <<>>) /\ lastOp'.op = "trigger")
           => (trace' = <<>> /\ ~threw' /\ DOMAIN callbacks' = {}) ]_vars

\* unregister() was the call made last, the mapping has no key, and a fire
\* from here applies nothing.
C7_Witness ==
  /\ lastOp = Op("removeListener", Undefined, Undefined, <<>>)
  /\ DOMAIN callbacks = {}
  /\ ENABLED (trigger /\ lastOp'.ev = "x" /\ trace' = <<>>)
  /\ ENABLED (trigger /\ lastOp'.ev = ALL_EVENT /\ trace' = <<>>)

\* -------------------------------------------------------------------- C8

SameMapping(a, b) == DOMAIN a = DOMAIN b /\ \A e \in DOMAIN a : a[e] = b[e]

\* C9 as stated: on an event name e that is no key of the mapping, fire(e, ...)
\* makes no call in its round over e's list, unregister(e) and unregister(e, cb)
\* raise no error, and each of these calls leaves the mapping exactly as it was.
C9_AsStated ==
  [][ \A e \in EventNames :
        e \notin DOMAIN callbacks
          => /\ Fired(e)
                  => (DirectCalls(trace') = <<>> /\ SameMapping(callbacks', callbacks))
             /\ (lastOp'.op = "removeListener" /\ lastOp'.ev = e)
                  => (~threw' /\ SameMapping(callbacks', callbacks)) ]_vars

\* C9 amended: on an event name e that is no key of the mapping,
\*  - fire(e, ...) makes no call in its round over e's list and adds no key; it
\*    keeps the active slots of every list, and changes a list only by dropping
\*    the tombstones its wildcard round passes over (all of them when no
\*    wildcard callback throws);
\*  - unregister(e, cb) raises no error and leaves the mapping exactly as it was;
\*  - unregister(e) raises no error, adds the key e with an empty list, and
\*    leaves every other list as it was.
C9_UnknownEvent ==
  [][ \A e \in EventNames :
        e \notin DOMAIN callbacks
          => /\ Fired(e)
                  => /\ DirectCalls(trace') = <<>>
                     /\ DOMAIN callbacks' = DOMAIN callbacks
                     /\ \A o \in DOMAIN callbacks :
                          /\ Active(callbacks'[o]) = Active(callbacks[o])
                          /\ o # ALL_EVENT => callbacks'[o] = callbacks[o]
                     /\ NoTombstone(ListOf(callbacks, ALL_EVENT))
                          => SameMapping(callbacks', callbacks)
                     /\ NonThrowing(ListOf(callbacks, ALL_EVENT))
                          => ListOf(callbacks', ALL_EVENT) = Active(ListOf(callbacks, ALL_EVENT))
             /\ \A cb \in Callbacks :
                  (lastOp' = Op("removeListener", e, cb, <<>>))
                    => (~threw' /\ trace' = <<>> /\ SameMapping(callbacks', callbacks))
             /\ (lastOp' = Op("removeListener", e, Undefined, <<>>))
                  => /\ ~threw' /\ trace' = <<>>
                     /\ DOMAIN callbacks' = DOMAIN callbacks \cup {e}
                     /\ callbacks'[e] = <<>>
                     /\ \A o \in DOMAIN callbacks : callbacks'[o] = callbacks[o] ]_vars

\* fire("x", ...) ran while x was no key of the mapping (it still is none) and
\* applied the wildcard callback only; from here unregister("x") adds the key x
\* with an empty list, and unregister("x", cbA) changes nothing.
C9_Witness ==
  /\ lastOp.op = "trigger" /\ lastOp.ev = "x"
  /\ "x" \notin DOMAIN callbacks
  /\ ListOf(callbacks, ALL_EVENT) = <<"cbA">>
  /\ trace = Calls(<<"cbA">>, <<"x">> \o lastOp.data, 0)
  /\ ENABLED ( /\ removeListener
               /\ lastOp' = Op("removeListener", "x", Undefined, <<>>)
               /\ DOMAIN callbacks' = {"x", ALL_EVENT}
               /\ callbacks'["x"] = <<>> )
  /\ ENABLED ( /\ removeListener
               /\ lastOp' = Op("removeListener", "x", "cbA", <<>>)
               /\ SameMapping(callbacks', callbacks) )

\* ------------------------------------------------------------------- C10

\* The callbacks of the list return or throw; none calls the dispatcher.
NoReentrant(list) ==
  \A i \in DOMAIN list : list[i] = Null \/ Behaviour(list[i]) \in {"plain", "throw"}

\* The positions of a sequence of calls that go to a callback that throws.
Throwers(calls) == {i \in DOMAIN calls : Behaviour(calls[i].cb) = "throw"}

Least(S) == CHOOSE n \in S : \A m \in S : n <= m

\* C10: a fire(e, ...) whose callbacks make no re-entrant call ends in a failure
\* exactly when a callback it is to apply throws; it has then applied the
\* callbacks positioned before the first one that throws, then that one, and
\* none positioned after it in e's list or in the wildcard list; no other call
\* of the dispatcher fails; and the fire leaves the keys of the mapping and the
\* active slots of every list as they were, so that later fires find them.
C10_FailFast ==
  [][ /\ \A e \in EventNames :
           ( /\ Fired(e)
             /\ NoReentrant(ListOf(callbacks, e))
             /\ NoReentrant(ListOf(callbacks, ALL_EVENT)) )
             => LET full == Expected(callbacks, e, lastOp'.data)
                IN /\ threw' = (Throwers(full) # {})
                   /\ Throwers(full) # {} => trace' = SubSeq(full, 1, Least(Throwers(full)))
                   /\ Throwers(full) = {} => trace' = full
                   /\ DOMAIN callbacks' = DOMAIN callbacks
                   /\ \A o \in DOMAIN callbacks :
                        Active(callbacks'[o]) = Active(callbacks[o])
      /\ lastOp'.op # "trigger" => ~threw'
      /\ threw' => (trace' # <<>> /\ Behaviour(trace'[Len(trace')].cb) = "throw") ]_vars

\* fire("x", ...) on x's list cbA, cbThrow and the wildcard list cbB ended in the
\* failure of cbThrow after applying cbA and cbThrow; cbB was not applied, and
\* all three are registered as before.
C10_Witness ==
  /\ lastOp.op = "trigger" /\ lastOp.ev = "x"
  /\ threw
  /\ ListOf(callbacks, "x") = <<"cbA", "cbThrow">>
  /\ ListOf(callbacks, ALL_EVENT) = <<"cbB">>
  /\ trace = Calls(<<"cbA", "cbThrow">>, lastOp.data, 1)

\* ------------------------------------------------------------------- C11

\* The mapping unregister(e, cb) leaves: the slots of e's list that hold cb
\* turned into tombstones, nothing else changed.
Unregistered(cbs, e, cb) ==
  [o \in DOMAIN cbs |->
     IF o = e
     THEN [i \in DOMAIN cbs[o] |-> IF cbs[o][i] = cb THEN Null ELSE cbs[o][i]]
     ELSE cbs[o]]

\* C11 as stated, for removeAllListeners: removeAllListeners(e, cb) on an event
\* e that has a list leaves the dispatcher in the state unregister(e, cb)
\* leaves it in, only the slots of e holding cb being removed.
C11_AsStated ==
  [][ \A e \in EventNames, cb \in Callbacks :
        (lastOp' = Op("removeAllListeners", e, cb, <<>>) /\ e \in DOMAIN callbacks)
          => SameMapping(callbacks', Unregistered(callbacks, e, cb)) ]_vars

\* C11 amended: removeAllListeners takes the event name only; with or without a
\* second argument removeAllListeners(e) leaves what unregister(e) leaves (e
\* with an empty list, every other list as it was), and removeAllListeners()
\* what unregister() leaves (no key).  The calls made through the names bind
\* and unbind do what register and unregister do: bindForAll(cb) appends cb to
\* the wildcard list, unbindForAll(cb) leaves what unregister(ALL_EVENT, cb)
\* leaves.
C11_Aliases ==
  [][ /\ \A e \in EventNames :
           (lastOp'.op = "removeAllListeners" /\ lastOp'.ev = e)
             => /\ DOMAIN callbacks' = DOMAIN callbacks \cup {e}
                /\ callbacks'[e] = <<>>
                /\ \A o \in DOMAIN callbacks \ {e} : callbacks'[o] = callbacks[o]
      /\ (lastOp'.op = "removeAllListeners" /\ lastOp'.ev = Undefined)
           => DOMAIN callbacks' = {}
      /\ lastOp'.op = "removeAllListeners" => (trace' = <<>> /\ ~threw')
      /\ lastOp'.op = "unbindForAll"
           => SameMapping(callbacks', Unregistered(callbacks, ALL_EVENT, lastOp'.cb))
      /\ lastOp'.op = "bindForAll"
           => callbacks'[ALL_EVENT] = Append(ListOf(callbacks, ALL_EVENT), lastOp'.cb) ]_vars

\* x's list holds cbA and cbB, and removeAllListeners("x", cbA) from here
\* leaves x's list empty: cbB is gone with cbA.
C11_Witness ==
  /\ ListOf(callbacks, "x") = <<"cbA", "cbB">>
  /\ ENABLED ( /\ removeAllListeners
               /\ lastOp' = Op("removeAllListeners", "x", "cbA", <<>>)
               /\ callbacks'["x"] = <<>> )

\* ------------------------------------------------------------------- C12

\* C12: unregister(e, cb) works in place: e's list keeps its length, each slot
\* that held cb is a tombstone, every other slot holds at its index what it
\* held, and the keys and the lists of all other events are as before.
C12_InPlace ==
  [][ \A e \in EventNames, cb \in Callbacks :
        (lastOp' = Op("removeListener", e, cb, <<>>))
          => /\ DOMAIN callbacks' = DOMAIN callbacks
             /\ \A o \in DOMAIN callbacks \ {e} : callbacks'[o] = callbacks[o]
             /\ e \in DOMAIN callbacks
                  => /\ Len(callbacks'[e]) = Len(callbacks[e])
                     /\ \A i \in DOMAIN callbacks[e] :
                          /\ callbacks[e][i] = cb => callbacks'[e][i] = Null
                          /\ callbacks[e][i] # cb => callbacks'[e][i] = callbacks[e][i] ]_vars

\* unregister("x", cbB) left a tombstone in front of cbA, which is still at
\* index 1, and the wildcard list still holds cbB.
C12_Witness ==
  /\ lastOp = Op("removeListener", "x", "cbB", <<>>)
  /\ ListOf(callbacks, "x") = <<Null, "cbA">>
  /\ ListOf(callbacks, ALL_EVENT) = <<"cbB">>

\* ------------------------------------------------------------------- C13

\* C13: after a fire(e, ...) whose callbacks just return, e's list and the
\* wildcard list are what their active slots were, in the same order, without
\* any tombstone; the calls made are the calls to those active slots (none to a
\* tombstone); and a list the fire does not walk is as it was.
C13_Compaction ==
  [][ \A e \in EventNames :
        ( /\ Fired(e)
          /\ AllPlain(ListOf(callbacks, e))
          /\ AllPlain(ListOf(callbacks, ALL_EVENT)) )
          => /\ DOMAIN callbacks' = DOMAIN callbacks
             /\ \A o \in DOMAIN callbacks :
                  IF o \in {e, ALL_EVENT}
                  THEN callbacks'[o] = Active(callbacks[o]) /\ NoTombstone(callbacks'[o])
                  ELSE callbacks'[o] = callbacks[o]
             /\ Len(trace') = Len(Active(ListOf(callbacks, e)))
                                + Len(Active(ListOf(callbacks, ALL_EVENT)))
             /\ \A i \in DOMAIN trace' : trace'[i].cb # Null
             /\ ~threw' ]_vars

\* fire("x", ...) walked a list of three slots (its round over x's list made
\* three steps) and left the two active ones, cbA and cbB, which it applied.
C13_Witness ==
  /\ lastOp.op = "trigger" /\ lastOp.ev = "x"
  /\ passes = <<[both |-> 1, len |-> 3, steps |-> 3]>>
  /\ ListOf(callbacks, "x") = <<"cbA", "cbB">>
  /\ trace = Calls(<<"cbA", "cbB">>, lastOp.data, 1)

\* ------------------------------------------------------------------- C14

\* The dispatcher whose callers register cbA, cbB and cbNest, which unregisters
\* itself from x and fires x again from inside its invocation.
SpecNested == InitWith({"cbA", "cbB", "cbNest"}) /\ [][Next]_vars

\* The calls of a trace made by the trigger(e, data) the caller made, as opposed
\* to those of the trigger("x", "n") a callback made.
OuterCalls(tr, e, data) ==
  LET O(c) == \/ (c.both = 1 /\ c.args = data)
              \/ (c.both = 0 /\ c.args = <<e>> \o data)
  IN SelectSeq(tr, O)

\* C14: when a callback applied by fire("x", ...) unregisters a callback of x
\* (itself) and fires x re-entrantly, the outer pass still applies every other
\* callback that is registered, exactly once and in list order: its calls to the
\* other callbacks are those of a fire without the nested call.
C14_NestedFireKeepsOuterPass ==
  [][ ( /\ Fired(SelfEvent)
        /\ Count(ListOf(callbacks, SelfEvent), "cbNest") > 0
        /\ AllPlain(Without(ListOf(callbacks, SelfEvent), "cbNest"))
        /\ AllPlain(ListOf(callbacks, ALL_EVENT)) )
        => CallsExcept(OuterCalls(trace', SelfEvent, lastOp'.data), "cbNest")
             = CallsExcept(Expected(callbacks, SelfEvent, lastOp'.data), "cbNest") ]_vars

\* ------------------------------------------------------------------- C15

\* The dispatcher whose callers register cbA, cbB and cbHead, which calls
\* headbind("x", cbNew) from inside its invocation.
SpecHead == InitWith({"cbA", "cbB", "cbHead"}) /\ [][Next]_vars

\* C15: when a callback applied by the pass of fire("x", ...) over x's list
\* calls headbind("x", cbNew), every callback that was in x's list when the pass
\* started is applied by that pass once per slot it held: none twice, none
\* skipped.
C15_HeadbindDuringPass ==
  [][ ( /\ Fired(SelfEvent)
        /\ Count(ListOf(callbacks, SelfEvent), "cbHead") > 0
        /\ AllPlain(Without(ListOf(callbacks, SelfEvent), "cbHead")) )
        => \A cb \in universe :
             CallsTo(DirectCalls(trace'), cb) = Count(ListOf(callbacks, SelfEvent), cb) ]_vars

\* ------------------------------------------------------------------- C16

\* The dispatcher whose callers register cbA, cbB and cbKill, which calls
\* removeListener("x", cbB) from inside its invocation.
SpecKill == InitWith({"cbA", "cbB", "cbKill"}) /\ [][Next]_vars

\* The position of the first slot of a list holding cb.
FirstSlot(list, cb) == Least({i \in DOMAIN list : list[i] = cb})

\* A list whose slots holding cb have become tombstones where they are.
Marked(list, cb) == [i \in DOMAIN list |-> IF list[i] = cb THEN Null ELSE list[i]]

\* C16: in the pass of fire("x", ...) over a list of x that holds cbKill, which
\* unregisters cbB from x, the slots of cbB positioned after the first cbKill
\* are not applied, and those positioned before it have been applied; after the
\* fire the latter are tombstones still in the list, at their place among the
\* active slots, and the former (reached as tombstones) are gone from it.
C16_RemovedAheadNotInvoked ==
  [][ ( /\ Fired(SelfEvent)
        /\ Count(ListOf(callbacks, SelfEvent), "cbKill") > 0 )
        => LET list == ListOf(callbacks, SelfEvent)
               k == FirstSlot(list, "cbKill")
               before == SubSeq(list, 1, k - 1)
               after == SubSeq(list, k, Len(list))
           IN /\ CallsTo(DirectCalls(trace'), OtherCallback) = Count(before, OtherCallback)
              /\ ListOf(callbacks', SelfEvent)
                   = Marked(Active(before), OtherCallback)
                       \o Without(Active(after), OtherCallback)
              /\ CallsExcept(DirectCalls(trace'), OtherCallback)
                   = Calls(Without(Active(list), OtherCallback), lastOp'.data, 1) ]_vars

\* x's list is [cbB, cbKill, cbB] and fire("x", ...) applies cbB once (the slot
\* before cbKill) and leaves [tombstone, cbKill]: the first cbB ran and stays as
\* a tombstone, the second was removed ahead of the pass and never ran.
C16_Witness ==
  /\ ListOf(callbacks, SelfEvent) = <<"cbB", "cbKill", "cbB">>
  /\ ENABLED ( /\ trigger
               /\ Fired(SelfEvent)
               /\ CallsTo(trace', "cbB") = 1
               /\ CallsTo(trace', "cbKill") = 1
               /\ ListOf(callbacks', SelfEvent) = <<Null, "cbKill">> )

\* ------------------------------------------------------------------- C17

\* The dispatcher whose callers register cbA, cbClear, which calls
\* removeListener("x") from inside its invocation, and cbReset, which calls
\* removeListener() there.
SpecClear == InitWith({"cbA", "cbClear", "cbReset"}) /\ [][Next]_vars

\* The positions of a list whose callback clears x's list or the whole mapping.
Clearers(list) ==
  {i \in DOMAIN list : list[i] # Null /\ Behaviour(list[i]) \in {"clearEvent", "reset"}}

Resets(list) == \E i \in DOMAIN list : list[i] # Null /\ Behaviour(list[i]) = "reset"

\* Every callback of the list returns, and calls the dispatcher only to clear.
PlainOrClear(list) ==
  \A i \in DOMAIN list :
    list[i] = Null \/ Behaviour(list[i]) \in {"plain", "clearEvent", "reset"}

SpecRegister == InitWith({"cbA", "cbReg", "cbRegAll"}) /\ [][Next]_vars

\* How many active slots of a list hold a callback that behaves as b.
Behaving(list, b) ==
  Cardinality({i \in DOMAIN list : list[i] # Null /\ Behaviour(list[i]) = b})

\* n slots holding cb.
Repeat(cb, n) == [i \in 1..n |-> cb]

\* C18: fire("x", ...) applies, in its round over x's list, the callbacks that
\* were active in the list when the round started and none of the cbNew that
\* cbReg appends to it meanwhile; these stay at the end of x's list, where the
\* next fire("x", ...) finds them as callbacks of the list. The cbNew that
\* cbRegAll appends to the wildcard list during the round over x's list are
\* applied by the same fire's wildcard round, after the callbacks that were in
\* the wildcard list; those appended during the wildcard round are not.
C18_RegisterDuringPass ==
  [][ Fired(SelfEvent)
        => LET X == ListOf(callbacks, SelfEvent)
               W == ListOf(callbacks, ALL_EVENT)
               data == lastOp'.data
               late == Repeat(NewCallback, Behaving(X, "registerAll"))
           IN /\ DirectCalls(trace') = Calls(Active(X), data, 1)
              /\ WildcardCalls(trace')
                   = Calls(Active(W) \o late, <<SelfEvent>> \o data, 0)
              /\ ListOf(callbacks', SelfEvent)
                   = Active(X) \o Repeat(NewCallback,
                                         Behaving(X, "register") + Behaving(W, "register"))
              /\ ListOf(callbacks', ALL_EVENT)
                   = Active(W) \o late
                       \o Repeat(NewCallback, Behaving(W, "registerAll")) ]_vars

\* fire("x", ...) on the list [cbRegAll, cbReg] of x, with no wildcard list:
\* the round over x's list applied cbRegAll and cbReg and not the cbNew that
\* cbReg appended to x's list, and the wildcard round applied the cbNew that
\* cbRegAll had appended to the wildcard list.
C18_Witness ==
  /\ lastOp.op = "trigger" /\ lastOp.ev = SelfEvent
  /\ trace = Calls(<<"cbRegAll", "cbReg">>, lastOp.data, 1)
               \o Calls(<<NewCallback>>, <<SelfEvent>> \o lastOp.data, 0)
  /\ ListOf(callbacks, SelfEvent) = <<"cbRegAll", "cbReg", NewCallback>>
  /\ ListOf(callbacks, ALL_EVENT) = <<NewCallback>>

\* ------------------------------------------------------------------- C19

\* The dispatcher whose callers register callbacks that change the list being
\* walked and never fire: cbAgain, which registers itself again on every
\* invocation, cbHead, which registers cbNew at the head, and cbSelf, which
\* unregisters itself.
SpecGrow == InitWith({"cbAgain", "cbHead", "cbSelf"}) /\ [][Next]_vars

\* C19: a fire whose callbacks return and do not fire returns, having made at
\* most two rounds (over the event's list, over the wildcard list), each of at
\* most as many loop steps as its list had slots when the round started,
\* whatever the callbacks register or unregister meanwhile.
C19_BoundedPasses ==
  [][ lastOp'.op = "trigger"
        => /\ threw' = FALSE
           /\ Len(passes') <= 2
           /\ \A p \in DOMAIN passes' : passes'[p].steps <= passes'[p].len
           /\ \A p, q \in DOMAIN passes' : p < q => passes'[p].both > passes'[q].both ]_vars

\* fire("x", ...) on the list [cbAgain, cbAgain] of x: both were applied, each
\* registered itself again, and the round ended after two steps with four
\* slots in the list.
C19_Witness ==
  /\ lastOp.op = "trigger" /\ lastOp.ev = SelfEvent
  /\ trace = Calls(<<"cbAgain", "cbAgain">>, lastOp.data, 1)
  /\ ListOf(callbacks, SelfEvent) = <<"cbAgain", "cbAgain", "cbAgain", "cbAgain">>
  /\ passes = <<[both |-> 1, len |-> 2, steps |-> 2]>>

\* ------------------------------------------------------------------- C20

\* C20: fire(ALL_EVENT, args) walks the wildcard list twice: it applies every
\* active callback of the list (none of which throws), in list order, to args,
\* and then every one of them again, in list order, to (ALL_EVENT, args), so
\* that a callback holding one slot of the list is applied exactly twice.
C20_WildcardFiredTwice ==
  [][ ( /\ Fired(ALL_EVENT)
        /\ NonThrowing(ListOf(callbacks, ALL_EVENT)) )
        => LET W == Active(ListOf(callbacks, ALL_EVENT))
               data == lastOp'.data
           IN /\ trace' = Calls(W, data, 1) \o Calls(W, <<ALL_EVENT>> \o data, 0)
              /\ \A cb \in universe :
                   Count(W, cb) = 1
                     => /\ CallsTo(DirectCalls(trace'), cb) = 1
                        /\ CallsTo(WildcardCalls(trace'), cb) = 1
                        /\ CallsTo(trace', cb) = 2 ]_vars

\* fire(ALL_EVENT, v1) applied cbA and cbB of the wildcard list to v1, and then
\* both again to (ALL_EVENT, v1).
C20_Witness ==
  /\ lastOp = Op("trigger", ALL_EVENT, Undefined, <<"v1">>)
  /\ ListOf(callbacks, ALL_EVENT) = <<"cbA", "cbB">>
  /\ trace = Calls(<<"cbA", "cbB">>, <<"v1">>, 1)
               \o Calls(<<"cbA", "cbB">>, <<ALL_EVENT, "v1">>, 0)

====
